---------------------------- MODULE Spec2Model ----------------------------
(***************************************************************************)
(* State-machine model of src/services/geminiService.ts: the two async     *)
(* operations analyzeThreatContent and getChatResponse, each of which      *)
(* builds one request, awaits ai.models.generateContent and maps the       *)
(* response (or lets the rejection propagate).                             *)
(*                                                                         *)
(* Representation of JavaScript values:                                    *)
(*   - a string is a sequence of fragments (TLA+ strings); user-supplied   *)
(*     strings are sequences of single characters, fixed literals of the   *)
(*     source are one-fragment sequences, a response text handed to        *)
(*     JSON.parse is a sequence of JSON tokens;                            *)
(*   - a value that may be undefined is tagged: Undefined or Str(s);       *)
(*   - a JSON value is a record tagged by t (null, boolean, number,        *)
(*     string, array, object); a number is the rational num/den;           *)
(*   - an object with optional keys is a function whose domain holds       *)
(*     exactly the keys that are present.                                  *)
(***************************************************************************)
EXTENDS Integers, Sequences, FiniteSets, TLC

\* ------------------------------------------------------------------ bounds

\* Longest imageData argument, in fragments.
MaxImageLen == 4
\* Longest chat history.
MaxHistory == 2
\* Longest grounding-chunk list of a response candidate.
MaxChunks == 2
\* Longest exhaustively enumerated response text, in JSON tokens.
MaxTokens == 2
\* Invocations that may be in flight together.
MaxInFlight == 2

\* ------------------------------------------------------- JavaScript values

Undefined == [t |-> "undefined"]

Str(s) == [t |-> "string", v |-> s]

\* JavaScript truthiness of an optional string: undefined and "" are falsy.
Truthy(x) == x.t = "string" /\ x.v # <<>>

\* All sequences over S of length at most n.
SeqsUpTo(S, n) == UNION {[1..k -> S] : k \in 0..n}

\* ------------------------------------------------------------ String.split

\* Positions of s that hold the separator.
SepPositions(s, sep) == {k \in 1..Len(s) : s[k] = sep}

RECURSIVE Split(_, _)
\* s.split(sep) for a one-character separator: the segments between
\* separators, in order; a string without separator is its only segment.
Split(s, sep) ==
    IF SepPositions(s, sep) = {}
    THEN <<s>>
    ELSE LET k == CHOOSE p \in SepPositions(s, sep) :
                      \A q \in SepPositions(s, sep) : p <= q
         IN <<SubSeq(s, 1, k - 1)>> \o Split(SubSeq(s, k + 1, Len(s)), sep)

\* arr[n] with JavaScript's zero-based index: undefined when out of range.
At(arr, n) == IF n + 1 \in DOMAIN arr THEN Str(arr[n + 1]) ELSE Undefined

\* -------------------------------------------------------------- JSON.parse

JNull == [t |-> "null"]
JBool(b) == [t |-> "boolean", v |-> b]
JNum(n, d) == [t |-> "number", num |-> n, den |-> d]
JStr(s) == [t |-> "string", v |-> s]
JArr(elems) == [t |-> "array", v |-> elems]
JObj(fields) == [t |-> "object", v |-> fields]

\* The lexer's string-literal tokens and the text each denotes.
StringLit ==
    [tok \in {"\"status\"", "\"riskLevel\"", "\"reasoning\"",
              "\"suggestedActions\"", "\"detectedIndicators\"",
              "\"Safe\"", "\"Dangerous\"", "\"high\"",
              "\"Credential harvesting page\"", "\"Block sender\"",
              "\"Urgency\"", "\"Homograph\""} |->
        CASE tok = "\"status\"" -> "status"
          [] tok = "\"riskLevel\"" -> "riskLevel"
          [] tok = "\"reasoning\"" -> "reasoning"
          [] tok = "\"suggestedActions\"" -> "suggestedActions"
          [] tok = "\"detectedIndicators\"" -> "detectedIndicators"
          [] tok = "\"Safe\"" -> "Safe"
          [] tok = "\"Dangerous\"" -> "Dangerous"
          [] tok = "\"high\"" -> "high"
          [] tok = "\"Credential harvesting page\"" -> "Credential harvesting page"
          [] tok = "\"Block sender\"" -> "Block sender"
          [] tok = "\"Urgency\"" -> "Urgency"
          [] tok = "\"Homograph\"" -> "Homograph"]

\* The lexer's number tokens and the value each denotes.
NumberLit ==
    [tok \in {"0", "35", "100", "150", "-5", "42.5"} |->
        CASE tok = "0" -> JNum(0, 1)
          [] tok = "35" -> JNum(35, 1)
          [] tok = "100" -> JNum(100, 1)
          [] tok = "150" -> JNum(150, 1)
          [] tok = "-5" -> JNum(-5, 1)
          [] tok = "42.5" -> JNum(85, 2)]

\* Result of a parsing step: failure, or a value and the next position.
Fail == [ok |-> FALSE]
Ok(val, next) == [ok |-> TRUE, val |-> val, next |-> next]

\* The object built from <<key, value>> members; a repeated key keeps its
\* last value.
ObjectOf(members) ==
    [k \in {members[j][1] : j \in DOMAIN members} |->
        LET last == CHOOSE j \in DOMAIN members :
                        /\ members[j][1] = k
                        /\ \A m \in DOMAIN members : members[m][1] = k => m <= j
        IN members[last][2]]

RECURSIVE ParseValue(_, _)
RECURSIVE ParseElements(_, _, _)
RECURSIVE ParseMembers(_, _, _)

\* value := object | array | string | number | true | false | null
ParseValue(toks, i) ==
    IF i > Len(toks) THEN Fail
    ELSE LET tok == toks[i] IN
         CASE tok = "{" ->
                IF i + 1 <= Len(toks) /\ toks[i + 1] = "}"
                THEN Ok(JObj(ObjectOf(<<>>)), i + 2)
                ELSE ParseMembers(toks, i + 1, <<>>)
           [] tok = "[" ->
                IF i + 1 <= Len(toks) /\ toks[i + 1] = "]"
                THEN Ok(JArr(<<>>), i + 2)
                ELSE ParseElements(toks, i + 1, <<>>)
           [] tok \in DOMAIN StringLit -> Ok(JStr(<<StringLit[tok]>>), i + 1)
           [] tok \in DOMAIN NumberLit -> Ok(NumberLit[tok], i + 1)
           [] tok = "true" -> Ok(JBool(TRUE), i + 1)
           [] tok = "false" -> Ok(JBool(FALSE), i + 1)
           [] tok = "null" -> Ok(JNull, i + 1)
           [] OTHER -> Fail

\* elements := value ("," value)* "]"
ParseElements(toks, i, acc) ==
    LET r == ParseValue(toks, i) IN
    IF ~r.ok THEN Fail
    ELSE IF r.next > Len(toks) THEN Fail
    ELSE IF toks[r.next] = "]" THEN Ok(JArr(Append(acc, r.val)), r.next + 1)
    ELSE IF toks[r.next] = "," THEN ParseElements(toks, r.next + 1, Append(acc, r.val))
    ELSE Fail

\* members := string ":" value ("," string ":" value)* "}"
ParseMembers(toks, i, acc) ==
    IF i + 1 > Len(toks) THEN Fail
    ELSE IF toks[i] \notin DOMAIN StringLit \/ toks[i + 1] # ":" THEN Fail
    ELSE LET r == ParseValue(toks, i + 2) IN
         IF ~r.ok THEN Fail
         ELSE IF r.next > Len(toks) THEN Fail
         ELSE LET more == Append(acc, <<StringLit[toks[i]], r.val>>) IN
              IF toks[r.next] = "}" THEN Ok(JObj(ObjectOf(more)), r.next + 1)
              ELSE IF toks[r.next] = "," THEN ParseMembers(toks, r.next + 1, more)
              ELSE Fail

\* String(x) as JSON.parse applies it to its argument: undefined becomes the
\* text "undefined".
StringOf(x) == IF x.t = "undefined" THEN <<"undefined">> ELSE x.v

\* JSON.parse(x): the value of the whole text, or a SyntaxError when the text
\* is not exactly one JSON value.
JSONParse(x) ==
    LET toks == StringOf(x)
        r == ParseValue(toks, 1)
    IN IF r.ok /\ r.next = Len(toks) + 1
       THEN [threw |-> FALSE, value |-> r.val]
       ELSE [threw |-> TRUE]

\* ------------------------------------------------------ analyzeThreatContent

\* The template literal of the prompt: the text is embedded verbatim between
\* the fixed head and the fixed tail.
prompt(text) ==
    <<"Act as a Senior Cyber-Forensics Lead. Analyze the following artifact for social engineering markers: \"">>
    \o text
    \o <<"\". AUDIT SCOPE ... OUTPUT PROTOCOL (JSON ONLY) ...">>

\* The parts array: the prompt, then the inline image when imageData is truthy.
parts(text, imageData) ==
    <<[text |-> prompt(text)]>>
    \o (IF Truthy(imageData)
        THEN <<[inlineData |-> [data |-> At(Split(imageData.v, ","), 1),
                                mimeType |-> "image/jpeg"]]>>
        ELSE <<>>)

\* The responseSchema of the request.
responseSchema ==
    [type |-> "OBJECT",
     properties |-> [status |-> "STRING",
                     riskLevel |-> "NUMBER",
                     reasoning |-> "STRING",
                     suggestedActions |-> "ARRAY of STRING",
                     detectedIndicators |-> "ARRAY of STRING"],
     required |-> <<"status", "riskLevel", "reasoning", "suggestedActions",
                    "detectedIndicators">>]

\* The argument of generateContent in analyzeThreatContent.
AnalyzeRequest(text, imageData) ==
    [model |-> "gemini-3-flash-preview",
     contents |-> [parts |-> parts(text, imageData)],
     config |-> [responseMimeType |-> "application/json",
                 responseSchema |-> responseSchema]]

\* The object returned from the catch block.
Fallback ==
    JObj([status |-> JStr(<<"Suspicious">>),
          riskLevel |-> JNum(50, 1),
          reasoning |-> JStr(<<"Forensic parser anomaly. Manual verification required.">>),
          suggestedActions |-> JArr(<<JStr(<<"Do not click links">>),
                                      JStr(<<"Verify source identity">>)>>),
          detectedIndicators |-> JArr(<<JStr(<<"Parser Error">>)>>)])

\* AnalyzeResult with a catch block that returns nothing.
AnalyzeResultNoFallback(response) ==
    LET parsed == JSONParse(response.text) IN
    IF parsed.threw THEN Undefined ELSE parsed.value

\* try { return JSON.parse(response.text) } catch { return fallback }
AnalyzeResult(response) ==
    LET parsed == JSONParse(response.text) IN
    IF parsed.threw THEN Fallback ELSE parsed.value

\* ----------------------------------------------------------- getChatResponse

ChatMode == {"lite", "search", "thinking"}

ThinkingBudget == 32768

systemInstruction == <<"You are the SAFECLICK Chief Intelligence Mentor. ...">>

\* The default parameter value: an omitted mode (written "undefined" among
\* the mode strings) is 'lite'.
ModeOf(modeArg) == IF modeArg = "undefined" THEN "lite" ELSE modeArg

\* model without the 'lite' branch.
modelWithoutLite(mode) ==
    IF mode = "thinking" THEN "gemini-3-pro-preview" ELSE "gemini-3-flash-preview"

\* The model chosen by the if / else-if chain.
model(mode) ==
    IF mode = "search" THEN "gemini-3-flash-preview"
    ELSE IF mode = "thinking" THEN "gemini-3-pro-preview"
    ELSE IF mode = "lite" THEN "gemini-flash-lite-latest"
    ELSE "gemini-3-flash-preview"

\* The config object: systemInstruction always, tools or thinkingConfig added
\* by the if / else-if chain.
config(mode) ==
    LET base == [systemInstruction |-> systemInstruction] IN
    IF mode = "search"
    THEN base @@ ("tools" :> <<[googleSearch |-> <<>>]>>)
    ELSE IF mode = "thinking"
    THEN base @@ ("thinkingConfig" :> [thinkingBudget |-> ThinkingBudget])
    ELSE base

\* contents that forwards only the latest message: history.slice(-1).map(...)
contentsLatestOnly(history) ==
    IF history = <<>> THEN <<>>
    ELSE <<[role |-> history[Len(history)].role,
            parts |-> <<[text |-> history[Len(history)].text]>>]>>

\* history.map(m => ({ role: m.role, parts: [{ text: m.text }] }))
contents(history) ==
    [k \in DOMAIN history |->
        [role |-> history[k].role, parts |-> <<[text |-> history[k].text]>>]]

\* The argument of generateContent in getChatResponse.
ChatRequest(history, modeArg) ==
    [model |-> model(ModeOf(modeArg)),
     contents |-> contents(history),
     config |-> config(ModeOf(modeArg))]

\* A chunk's web field is an object when present, so it is truthy exactly
\* when it is not undefined.
HasWeb(chunk) == chunk.web.t # "undefined"

\* FilterWeb with find in place of filter: only the first web chunk is kept.
FilterWebFirst(chunks) ==
    LET idx == {k \in DOMAIN chunks : HasWeb(chunks[k])} IN
    IF idx = {} THEN <<>>
    ELSE <<chunks[CHOOSE k \in idx : \A m \in idx : k <= m]>>

RECURSIVE FilterWeb(_)
\* chunks.filter(chunk => chunk.web): the chunks with a web field, in order.
FilterWeb(chunks) ==
    IF chunks = <<>> THEN <<>>
    ELSE (IF HasWeb(Head(chunks)) THEN <<Head(chunks)>> ELSE <<>>)
         \o FilterWeb(Tail(chunks))

\* response.candidates?.[0]?.groundingMetadata?.groundingChunks
GroundingChunks(response) ==
    IF response.candidates.t = "undefined" THEN Undefined
    ELSE IF response.candidates.v = <<>> THEN Undefined
    ELSE LET metadata == response.candidates.v[1].groundingMetadata IN
         IF metadata.t = "undefined" THEN Undefined
         ELSE metadata.groundingChunks

\* ?.filter(chunk => chunk.web)?.map(chunk => ({title, uri}))
sources(response) ==
    LET chunks == GroundingChunks(response) IN
    IF chunks.t = "undefined" THEN Undefined
    ELSE LET web == FilterWeb(chunks.v) IN
         [t |-> "array",
          v |-> [k \in DOMAIN web |->
                    [title |-> web[k].web.title, uri |-> web[k].web.uri]]]

\* ChatResult with ?? in place of ||: only a missing text is defaulted.
ChatResultNullish(response) ==
    [text |-> IF response.text.t # "undefined" THEN response.text
              ELSE Str(<<"Communication link lost.">>),
     sources |-> sources(response)]

\* { text: response.text || "Communication link lost.", sources }
ChatResult(response) ==
    [text |-> IF Truthy(response.text) THEN response.text
              ELSE Str(<<"Communication link lost.">>),
     sources |-> sources(response)]

\* ------------------------------------------------------------------ inputs

\* text arguments: the empty string, a plain one, one with a quote and a
\* control character.
Texts == {<<>>, <<"\"", "\n">>}

ImageFragments == {"data:image/jpeg;base64", ",", "AAAA"}

\* imageData arguments: omitted, or any string of at most MaxImageLen fragments.
ImageDatas ==
    {Undefined} \cup {Str(s) : s \in SeqsUpTo(ImageFragments, MaxImageLen)}

\* A response text that is an object with all five fields, riskLevel given.
ObjectText(riskLevel) ==
    <<"{", "\"status\"", ":", "\"Dangerous\"", ",",
      "\"riskLevel\"", ":", riskLevel, ",",
      "\"reasoning\"", ":", "\"Credential harvesting page\"", ",",
      "\"suggestedActions\"", ":", "[", "\"Block sender\"", "]", ",",
      "\"detectedIndicators\"", ":", "[", "\"Urgency\"", ",", "\"Homograph\"", "]",
      "}">>

\* Response texts that are not JSON.
MalformedTexts ==
    {<<"{", "\"status\"", ":">>,
     <<"{", "\"status\"", ":", "\"Safe\"", ",", "}">>,
     <<"{", "'status'", ":", "'Safe'", "}">>,
     <<"Here is the analysis:", "{", "}">>,
     <<"I cannot analyze this content.">>,
     <<"{", "}", "{", "}">>}

\* Response texts that are JSON.
WellFormedTexts ==
    {ObjectText(r) : r \in {"0", "35", "100", "150", "-5", "42.5", "\"high\"", "null"}}
    \cup {<<"{", "\"status\"", ":", "\"Safe\"", "}">>,
          <<"{", "\"riskLevel\"", ":", "35", ",", "\"riskLevel\"", ":", "150", "}">>,
          <<"\"Safe\"">>,
          <<"null">>}

ShortTokens == {"{", "}", "[", "]", "35"}

\* What generateContent may resolve with for analyzeThreatContent: no text, or
\* any short token sequence, or one of the longer sample texts.
AnalyzeResponses ==
    {[text |-> x] :
        x \in {Undefined}
              \cup {Str(toks) : toks \in SeqsUpTo(ShortTokens, MaxTokens)
                                         \cup MalformedTexts \cup WellFormedTexts}}

\* What generateContent may reject with.
Faults == {"TypeError: fetch failed", "ApiError: 401 API key not valid"}

ChatMessages == [role : {"user", "model"}, text : {<<>>, <<"h", "i">>}]

Histories == SeqsUpTo(ChatMessages, MaxHistory)

\* The mode argument: a ChatMode, or omitted.
ModeArgs == ChatMode \cup {"undefined"}

Web(title, uri) == [web |-> [t |-> "object", title |-> title, uri |-> uri]]

\* A grounding chunk of another kind (retrieved context), without web field.
NonWeb == [web |-> Undefined]

ChunkKinds ==
    {NonWeb,
     Web(Str(<<"CERT-In">>), Str(<<"https://www.cert-in.org.in">>)),
     Web(Str(<<"NCRP">>), Str(<<"https://cybercrime.gov.in">>)),
     Web(Undefined, Str(<<"https://example.org">>))}

Candidate(chunks) ==
    [groundingMetadata |-> [t |-> "object", groundingChunks |-> chunks]]

\* The candidates of a chat response: missing, empty, without grounding
\* metadata, without chunk list, with a chunk list, and a later candidate
\* that alone carries chunks.
CandidateLists ==
    {Undefined,
     [t |-> "array", v |-> <<>>],
     [t |-> "array", v |-> <<[groundingMetadata |-> Undefined]>>],
     [t |-> "array", v |-> <<Candidate(Undefined)>>],
     [t |-> "array",
      v |-> <<[groundingMetadata |-> Undefined],
              Candidate([t |-> "array",
                         v |-> <<Web(Str(<<"NCRP">>),
                                     Str(<<"https://cybercrime.gov.in">>))>>])>>]}
    \cup {[t |-> "array", v |-> <<Candidate([t |-> "array", v |-> chunks])>>] :
             chunks \in SeqsUpTo(ChunkKinds, MaxChunks)}

ChatTexts == {Undefined, Str(<<>>), Str(<<"Phishing relies on urgency.">>)}

\* What generateContent may resolve with for getChatResponse.
ChatResponses == [text : ChatTexts, candidates : CandidateLists]

\* The inputs of the specification of concurrent invocations.
ConcTexts == {<<>>, <<"\"", "\n">>}
ConcImageDatas == {Undefined, Str(<<"data:image/jpeg;base64", ",", "AAAA">>)}
ConcAnalyzeResponses ==
    {[text |-> Str(<<"{", "\"status\"", ":">>)], [text |-> Str(ObjectText("35"))]}
ConcHistories == {<<>>, <<[role |-> "user", text |-> <<"h", "i">>]>>}
ConcModeArgs == {"undefined", "search"}
ConcChatResponses ==
    {[text |-> Undefined, candidates |-> Undefined],
     [text |-> Str(<<"Phishing relies on urgency.">>),
      candidates |-> [t |-> "array",
                      v |-> <<Candidate([t |-> "array",
                                         v |-> <<Web(Str(<<"NCRP">>),
                                                     Str(<<"https://cybercrime.gov.in">>))>>])>>]]}
ConcFaults == {"TypeError: fetch failed"}

\* ------------------------------------------------------------------- state

VARIABLES
    ai,             \* the module-level client handle
    pc,             \* per invocation: "idle", "await" (suspended at the await), "done"
    args,           \* per invocation: the operation called and its arguments
    callerHistory,  \* per invocation: the caller's history array as it is now
    sent,           \* per invocation: the generateContent requests it issued
    received,       \* per invocation: how its generateContent promise settled
    settled         \* per invocation: how the promise it returned settled

vars == <<ai, pc, args, callerHistory, sent, received, settled>>

\* const ai = new GoogleGenAI({ apiKey: process.env.API_KEY })
NewClient == [apiKey |-> "process.env.API_KEY"]

InitOf(ids) ==
    /\ ai = NewClient
    /\ pc = [i \in ids |-> "idle"]
    /\ args = [i \in ids |-> [op |-> "none"]]
    /\ callerHistory = [i \in ids |-> <<>>]
    /\ sent = [i \in ids |-> <<>>]
    /\ received = [i \in ids |-> [kind |-> "none"]]
    /\ settled = [i \in ids |-> [state |-> "pending"]]

\* One invocation.
Init == InitOf({1})

\* Up to MaxInFlight invocations.
ConcInit == InitOf(1..MaxInFlight)

\* The parts of the analysis request issued last, were parts a module-level
\* array.
PartsSoFar ==
    LET S == {j \in DOMAIN pc : args[j].op = "analyze"} IN
    IF S = {} THEN <<>>
    ELSE LET last == CHOOSE j \in S : \A k \in S :
                         Len(sent[j][1].contents.parts) >= Len(sent[k][1].contents.parts)
         IN sent[last][1].contents.parts

\* analyzeThreatContent with parts kept at module level: every invocation
\* pushes onto the array the earlier ones filled.
analyzeThreatContentSharedParts(i, text, imageData) ==
    /\ pc[i] = "idle"
    /\ args' = [args EXCEPT ![i] = [op |-> "analyze", text |-> text,
                                    imageData |-> imageData]]
    /\ sent' = [sent EXCEPT ![i] =
                   Append(@, [AnalyzeRequest(text, imageData) EXCEPT
                                 !.contents.parts = PartsSoFar \o @])]
    /\ pc' = [pc EXCEPT ![i] = "await"]
    /\ UNCHANGED <<ai, callerHistory, received, settled>>

\* analyzeThreatContent(text, imageData) up to its await: builds the request
\* and issues it.
analyzeThreatContent(i, text, imageData) ==
    /\ pc[i] = "idle"
    /\ args' = [args EXCEPT ![i] = [op |-> "analyze", text |-> text,
                                    imageData |-> imageData]]
    /\ sent' = [sent EXCEPT ![i] = Append(@, AnalyzeRequest(text, imageData))]
    /\ pc' = [pc EXCEPT ![i] = "await"]
    /\ UNCHANGED <<ai, callerHistory, received, settled>>

\* generateContent resolves: the function resumes after the await, parses
\* inside the try and returns.
analyzeResolved(i, response) ==
    /\ pc[i] = "await"
    /\ args[i].op = "analyze"
    /\ received' = [received EXCEPT ![i] = [kind |-> "response",
                                            response |-> response]]
    /\ settled' = [settled EXCEPT ![i] = [state |-> "fulfilled",
                                          value |-> AnalyzeResult(response)]]
    /\ pc' = [pc EXCEPT ![i] = "done"]
    /\ UNCHANGED <<ai, args, callerHistory, sent>>

\* analyzeRejected with the await inside the try: the fault is caught and the
\* fallback returned.
analyzeRejectedCaught(i, fault) ==
    /\ pc[i] = "await"
    /\ args[i].op = "analyze"
    /\ received' = [received EXCEPT ![i] = [kind |-> "fault", fault |-> fault]]
    /\ settled' = [settled EXCEPT ![i] = [state |-> "fulfilled", value |-> Fallback]]
    /\ pc' = [pc EXCEPT ![i] = "done"]
    /\ UNCHANGED <<ai, args, callerHistory, sent>>

\* generateContent rejects: the await, which is outside the try, throws, and
\* the returned promise rejects with the same reason.
analyzeRejected(i, fault) ==
    /\ pc[i] = "await"
    /\ args[i].op = "analyze"
    /\ received' = [received EXCEPT ![i] = [kind |-> "fault", fault |-> fault]]
    /\ settled' = [settled EXCEPT ![i] = [state |-> "rejected", reason |-> fault]]
    /\ pc' = [pc EXCEPT ![i] = "done"]
    /\ UNCHANGED <<ai, args, callerHistory, sent>>

\* getChatResponse(history, mode) up to its await: picks model and config,
\* maps the history and issues the request; map leaves history as it was.
getChatResponse(i, history, modeArg) ==
    /\ pc[i] = "idle"
    /\ args' = [args EXCEPT ![i] = [op |-> "chat", history |-> history,
                                    mode |-> modeArg]]
    /\ callerHistory' = [callerHistory EXCEPT ![i] = history]
    /\ sent' = [sent EXCEPT ![i] = Append(@, ChatRequest(history, modeArg))]
    /\ pc' = [pc EXCEPT ![i] = "await"]
    /\ UNCHANGED <<ai, received, settled>>

\* generateContent resolves: the function resumes, extracts the sources and
\* returns the reply.
chatResolved(i, response) ==
    /\ pc[i] = "await"
    /\ args[i].op = "chat"
    /\ received' = [received EXCEPT ![i] = [kind |-> "response",
                                            response |-> response]]
    /\ settled' = [settled EXCEPT ![i] = [state |-> "fulfilled",
                                          value |-> ChatResult(response)]]
    /\ pc' = [pc EXCEPT ![i] = "done"]
    /\ UNCHANGED <<ai, args, callerHistory, sent>>

\* generateContent rejects: the await throws and the returned promise rejects
\* with the same reason.
chatRejected(i, fault) ==
    /\ pc[i] = "await"
    /\ args[i].op = "chat"
    /\ received' = [received EXCEPT ![i] = [kind |-> "fault", fault |-> fault]]
    /\ settled' = [settled EXCEPT ![i] = [state |-> "rejected", reason |-> fault]]
    /\ pc' = [pc EXCEPT ![i] = "done"]
    /\ UNCHANGED <<ai, args, callerHistory, sent>>

Next ==
    \/ \E i \in DOMAIN pc, text \in Texts, imageData \in ImageDatas :
           analyzeThreatContent(i, text, imageData)
    \/ \E i \in DOMAIN pc, response \in AnalyzeResponses :
           analyzeResolved(i, response)
    \/ \E i \in DOMAIN pc, fault \in Faults : analyzeRejected(i, fault)
    \/ \E i \in DOMAIN pc, history \in Histories, modeArg \in ModeArgs :
           getChatResponse(i, history, modeArg)
    \/ \E i \in DOMAIN pc, response \in ChatResponses :
           chatResolved(i, response)
    \/ \E i \in DOMAIN pc, fault \in Faults : chatRejected(i, fault)

\* One invocation at a time, over all the inputs.
Spec == Init /\ [][Next]_vars

ConcNext ==
    \/ \E i \in DOMAIN pc, text \in ConcTexts, imageData \in ConcImageDatas :
           analyzeThreatContent(i, text, imageData)
    \/ \E i \in DOMAIN pc, response \in ConcAnalyzeResponses :
           analyzeResolved(i, response)
    \/ \E i \in DOMAIN pc, fault \in ConcFaults : analyzeRejected(i, fault)
    \/ \E i \in DOMAIN pc, history \in ConcHistories, modeArg \in ConcModeArgs :
           getChatResponse(i, history, modeArg)
    \/ \E i \in DOMAIN pc, response \in ConcChatResponses :
           chatResolved(i, response)
    \/ \E i \in DOMAIN pc, fault \in ConcFaults : chatRejected(i, fault)

\* Invocations in flight together, interleaved in every order.
ConcSpec == ConcInit /\ [][ConcNext]_vars

\* ------------------------------------------------------------------ claims

\* The fallback object as the specification spells it out.
FixedFallbackObject ==
    JObj([status |-> JStr(<<"Suspicious">>),
          riskLevel |-> JNum(50, 1),
          reasoning |-> JStr(<<"Forensic parser anomaly. Manual verification required.">>),
          suggestedActions |-> JArr(<<JStr(<<"Do not click links">>),
                                      JStr(<<"Verify source identity">>)>>),
          detectedIndicators |-> JArr(<<JStr(<<"Parser Error">>)>>)])

\* A response text that is not parseable as JSON: missing, empty, one of the
\* malformed samples, or anything else JSON.parse rejects.
Unparseable(x) ==
    \/ x.t = "undefined"
    \/ x.v = <<>>
    \/ x.v \in MalformedTexts
    \/ JSONParse(x).threw

\* C1: when generateContent resolves with a response whose text is not
\* parseable as JSON (malformed, empty or missing), analyzeThreatContent does
\* not fail: it returns exactly the fixed fallback object.
C1_UnparseableReturnsFallback ==
    \A i \in DOMAIN pc :
        (/\ args[i].op = "analyze"
         /\ received[i].kind = "response"
         /\ Unparseable(received[i].response.text))
        => settled[i] = [state |-> "fulfilled", value |-> FixedFallbackObject]

\* C1 witness: a truncated object arrived and the fallback was returned.
C1_Witness ==
    \E i \in DOMAIN pc :
        /\ args[i].op = "analyze"
        /\ received[i].kind = "response"
        /\ received[i].response.text = Str(<<"{", "\"status\"", ":">>)
        /\ settled[i] = [state |-> "fulfilled", value |-> FixedFallbackObject]

\* An integer in [0,100].
IsRiskLevel(n) ==
    /\ n.t = "number"
    /\ n.num % n.den = 0
    /\ n.num \div n.den \in 0..100

IsStringArray(a) ==
    /\ a.t = "array"
    /\ \A k \in DOMAIN a.v : a.v[k].t = "string"

\* The declared responseSchema: an object with the five required fields, each
\* of its declared type.
ConformsToSchema(v) ==
    /\ v.t = "object"
    /\ {"status", "riskLevel", "reasoning", "suggestedActions",
        "detectedIndicators"} \subseteq DOMAIN v.v
    /\ v.v["status"].t = "string"
    /\ v.v["riskLevel"].t = "number"
    /\ v.v["reasoning"].t = "string"
    /\ IsStringArray(v.v["suggestedActions"])
    /\ IsStringArray(v.v["detectedIndicators"])

\* C2: every result analyzeThreatContent returns has a riskLevel that is an
\* integer in [0,100], whatever the text argument and whatever the response
\* (stated here for the results that match the schema, the reading most
\* favourable to the claim).
C2_RiskLevelInRange ==
    \A i \in DOMAIN pc :
        (/\ args[i].op = "analyze"
         /\ settled[i].state = "fulfilled"
         /\ ConformsToSchema(settled[i].value))
        => IsRiskLevel(settled[i].value.v["riskLevel"])

\* C3: when the response text is valid JSON that does not match the declared
\* schema, analyzeThreatContent returns the fixed fallback result rather than
\* the parsed value.
C3_SchemaMismatchReturnsFallback ==
    \A i \in DOMAIN pc :
        (/\ args[i].op = "analyze"
         /\ received[i].kind = "response"
         /\ ~JSONParse(received[i].response.text).threw
         /\ ~ConformsToSchema(JSONParse(received[i].response.text).value))
        => settled[i] = [state |-> "fulfilled", value |-> FixedFallbackObject]

\* C4: in both operations, when the generateContent call fails, the
\* invocation ends by rejecting with that fault: it returns no value (no
\* fallback object) and has issued one request and no second one.
C4_FaultPropagates ==
    \A i \in DOMAIN pc :
        received[i].kind = "fault"
        => /\ settled[i] = [state |-> "rejected", reason |-> received[i].fault]
           /\ Len(sent[i]) = 1

\* C4 witness: the request of an analyzeThreatContent invocation failed and
\* the invocation rejected with that fault after its one request.
C4_Witness ==
    \E i \in DOMAIN pc :
        /\ args[i].op = "analyze"
        /\ received[i].kind = "fault"
        /\ settled[i] = [state |-> "rejected", reason |-> received[i].fault]
        /\ Len(sent[i]) = 1

\* The whole of s after its first separator.
AfterFirst(s, sep) ==
    LET k == CHOOSE p \in SepPositions(s, sep) :
                 \A q \in SepPositions(s, sep) : p <= q
    IN SubSeq(s, k + 1, Len(s))

\* C5: with imageData the request has exactly two parts, the prompt and one
\* inline image/jpeg part whose data is the whole of imageData after its
\* first comma; without imageData it has exactly the prompt part (stated for
\* imageData that holds a comma, and for omitted imageData).
C5_ImageIsAllAfterFirstComma ==
    \A i \in DOMAIN pc :
        (args[i].op = "analyze" /\ pc[i] # "idle")
        => LET image == args[i].imageData
               sentParts == sent[i][1].contents.parts
               promptPart == [text |-> prompt(args[i].text)]
           IN /\ (image.t = "string" /\ SepPositions(image.v, ",") # {})
                 => sentParts =
                      <<promptPart,
                        [inlineData |-> [data |-> Str(AfterFirst(image.v, ",")),
                                         mimeType |-> "image/jpeg"]]>>
              /\ image.t = "undefined" => sentParts = <<promptPart>>

\* C6: the request of getChatResponse follows the mode: lite (and an omitted
\* mode) selects the lightweight model with neither tools nor thinkingConfig;
\* search the standard model with the web-grounding tool and no
\* thinkingConfig; thinking the high-capability model with a non-zero
\* thinking budget and no tools; the system instruction is the same in all.
C6_RequestFollowsMode ==
    \A i \in DOMAIN pc :
        (args[i].op = "chat" /\ pc[i] # "idle")
        => LET request == sent[i][1]
               keys == DOMAIN request.config
           IN /\ request.config.systemInstruction = systemInstruction
              /\ args[i].mode \in {"lite", "undefined"}
                 => /\ request.model = "gemini-flash-lite-latest"
                    /\ keys = {"systemInstruction"}
              /\ args[i].mode = "search"
                 => /\ request.model = "gemini-3-flash-preview"
                    /\ keys = {"systemInstruction", "tools"}
                    /\ request.config["tools"] = <<[googleSearch |-> <<>>]>>
              /\ args[i].mode = "thinking"
                 => /\ request.model = "gemini-3-pro-preview"
                    /\ keys = {"systemInstruction", "thinkingConfig"}
                    /\ request.config["thinkingConfig"].thinkingBudget > 0

\* C6 witness: a call that omitted the mode was issued to the lightweight
\* model.
C6_Witness ==
    \E i \in DOMAIN pc :
        /\ args[i].op = "chat"
        /\ args[i].mode = "undefined"
        /\ Len(sent[i]) = 1
        /\ sent[i][1].model = "gemini-flash-lite-latest"

\* C7: for a history of N messages and every mode, the contents of the
\* request has exactly N entries, entry k carrying the role and text of
\* history[k]; the caller's history is left as it was.
C7_HistoryForwarded ==
    \A i \in DOMAIN pc :
        (args[i].op = "chat" /\ pc[i] # "idle")
        => LET history == args[i].history
               sentContents == sent[i][1].contents
           IN /\ Len(sentContents) = Len(history)
              /\ \A k \in 1..Len(history) :
                    /\ sentContents[k].role = history[k].role
                    /\ sentContents[k].parts = <<[text |-> history[k].text]>>
              /\ callerHistory[i] = history

\* C7 witness: a history of two different messages was forwarded.
C7_Witness ==
    \E i \in DOMAIN pc :
        /\ args[i].op = "chat"
        /\ Len(args[i].history) >= 2
        /\ args[i].history[1] # args[i].history[2]
        /\ Len(sent[i]) = 1
        /\ Len(sent[i][1].contents) = Len(args[i].history)

\* The grounding chunks of the first candidate of a response, or undefined.
FirstCandidateChunks(response) ==
    LET cands == response.candidates IN
    IF cands.t = "undefined" THEN Undefined
    ELSE IF Len(cands.v) = 0 THEN Undefined
    ELSE IF cands.v[1].groundingMetadata.t = "undefined" THEN Undefined
    ELSE cands.v[1].groundingMetadata.groundingChunks

\* The positions of the chunks that reference a web source.
WebPositions(chunks) == {k \in DOMAIN chunks : chunks[k].web.t # "undefined"}

\* The {title, uri} of exactly the web-referencing chunks, in their order:
\* entry n comes from the n-th web position.
WebSourcesOf(chunks) ==
    LET pos == WebPositions(chunks) IN
    [n \in 1..Cardinality(pos) |->
        LET k == CHOOSE p \in pos : Cardinality({q \in pos : q < p}) = n - 1
        IN [title |-> chunks[k].web.title, uri |-> chunks[k].web.uri]]

\* C8 as stated: sources is absent whenever no grounding chunk of the first
\* candidate references a web source, also when a chunk list is present
\* without web chunk; otherwise it is the {title, uri} of the web chunks in
\* order.
C8_SourcesAbsentWithoutWebChunk ==
    \A i \in DOMAIN pc :
        (args[i].op = "chat" /\ settled[i].state = "fulfilled")
        => LET listed == FirstCandidateChunks(received[i].response)
               chunks == IF listed.t = "undefined" THEN <<>> ELSE listed.v
           IN IF WebPositions(chunks) = {}
              THEN settled[i].value.sources = Undefined
              ELSE settled[i].value.sources =
                       [t |-> "array", v |-> WebSourcesOf(chunks)]

\* C8 amended: sources is absent exactly when the first candidate has no
\* grounding-chunk list (no candidates, no first candidate, no grounding
\* metadata or no chunk list); when a list is present, sources is the
\* {title, uri} of the web chunks in order, the empty list when no chunk
\* references a web source.
C8_SourcesAbsentWithoutChunkList ==
    \A i \in DOMAIN pc :
        (args[i].op = "chat" /\ settled[i].state = "fulfilled")
        => LET listed == FirstCandidateChunks(received[i].response)
           IN IF listed.t = "undefined"
              THEN settled[i].value.sources = Undefined
              ELSE settled[i].value.sources =
                       [t |-> "array", v |-> WebSourcesOf(listed.v)]

\* C8 witness: a chunk list without web chunk arrived and sources is the
\* empty list.
C8_Witness ==
    \E i \in DOMAIN pc :
        /\ args[i].op = "chat"
        /\ settled[i].state = "fulfilled"
        /\ FirstCandidateChunks(received[i].response) =
               [t |-> "array", v |-> <<NonWeb>>]
        /\ settled[i].value.sources = [t |-> "array", v |-> <<>>]

\* C9: when generateContent resolves, getChatResponse returns the text
\* 'Communication link lost.' if the response text is empty or missing and
\* the response text unchanged otherwise; it never turns an empty or missing
\* text into a fault.
C9_TextOrPlaceholder ==
    \A i \in DOMAIN pc :
        (args[i].op = "chat" /\ received[i].kind = "response")
        => LET text == received[i].response.text IN
           /\ settled[i].state = "fulfilled"
           /\ settled[i].value.text =
                  IF text.t = "undefined" \/ text.v = <<>>
                  THEN Str(<<"Communication link lost.">>)
                  ELSE text

\* C9 witness: an empty text arrived and the placeholder was returned.
C9_Witness ==
    \E i \in DOMAIN pc :
        /\ args[i].op = "chat"
        /\ received[i].kind = "response"
        /\ received[i].response.text = Str(<<>>)
        /\ settled[i].state = "fulfilled"
        /\ settled[i].value.text = Str(<<"Communication link lost.">>)

=============================================================================
